---- MODULE Spec2Model ----
(***************************************************************************)
(* Model of advanced-vector/vector.h: RawMemory<T> (an owning handle to a  *)
(* block of uninitialized slots) and Vector<T> (a RawMemory plus the count *)
(* of constructed elements).                                               *)
(*                                                                         *)
(* The free store is a function from block ids to blocks; a block is a     *)
(* sequence of slots and a slot is either Raw (no object) or the value of   *)
(* the object in it.  A moved-from object has lost its value: it holds     *)
(* MovedFrom, the value of T().  C++ index i is slot i + 1 of the sequence. *)
(*                                                                         *)
(* Every function of the header is an operator on an execution context c:  *)
(* the heap, the Vector objects, the countdown to the injected failure     *)
(* (c.f = k: the k-th fallible step from here throws; 0: none does), and   *)
(* c.ok, which is FALSE while an exception propagates.                     *)
(***************************************************************************)
EXTENDS Integers, Sequences, FiniteSets, TLC

\* ------------------------------------------------------------------ bounds
MaxBlocks == 3          \* blocks the free store can have in use at one time
MaxSlots  == 4          \* largest total capacity the Vectors hold between operations
NumValues == 2          \* distinct element values a caller supplies
MaxFail   == 3          \* the injected failure hits one of the first MaxFail fallible steps

\* ------------------------------------------------------------- vocabulary
Null      == 0          \* nullptr
Raw       == -1         \* a slot holding no object
Default   == 0          \* T()
MovedFrom == Default    \* what a move leaves behind in its source
Values    == 0..(NumValues - 1)
VecIds    == {1, 2}     \* the Vector objects of the program
Mutated   == {1}        \* the one it reserves, resizes, appends to, inserts into and erases
                        \* from; the other is constructed, copied, moved, assigned, swapped
                        \* and destroyed, and takes any state the first can have
Blocks    == 1..MaxBlocks

\* The element types: which relocation branch `if constexpr` selects and
\* which operations of T may throw.  nothrow_move stands for both
\* is_nothrow_move_constructible_v and is_nothrow_move_assignable_v.
ElemTypes == [nothrow_move : BOOLEAN, copyable : BOOLEAN]

VARIABLES
    heap,     \* [Blocks -> [st : {"free","live","released"}, slots : Seq(slot)]]
    vec,      \* [VecIds -> [live, data : [buffer, capacity], size]]
    T,        \* the element type the Vectors are instantiated with
    last,     \* what the most recent operation was, did and returned
    hist      \* history of the calls on Vector 1, kept by SeqSpec only

vars == <<heap, vec, T, last, hist>>

\* ---------------------------------------------------------------- helpers
Max(a, b) == IF a >= b THEN a ELSE b
Min(a, b) == IF a <= b THEN a ELSE b

GetSlots(h, b, o, n) == [j \in 1..n |-> h[b].slots[o + j]]

SetSlots(h, b, o, vals) ==
    IF Len(vals) = 0 THEN h
    ELSE [h EXCEPT ![b].slots =
            [j \in 1..Len(@) |-> IF j > o /\ j <= o + Len(vals) THEN vals[j - o] ELSE @[j]]]

Fill(n, x) == [j \in 1..n |-> x]

\* does one of the next s fallible steps throw, and the countdown after s
\* steps that did not
Fails(c, s) == c.f >= 1 /\ c.f <= s
Tick(c, s)  == IF c.f = 0 THEN 0 ELSE c.f - s

\* ------------------------------------------------------------- RawMemory
EmptyRawMemory == [buffer |-> Null, capacity |-> 0]

\* the address operator new returns: a block that is not in use
FreeBlocks(h) == {b \in Blocks : h[b].st = "free"}
NewBlock(h) == CHOOSE b \in FreeBlocks(h) : \A b2 \in FreeBlocks(h) : b <= b2

\* Allocate(n) inside RawMemory(size_t): operator new for n != 0, which may
\* throw; no call at all for n = 0.  The result is left in c.r.
RawMemoryCtor(c, n) ==
    IF ~c.ok THEN c
    ELSE IF n = 0 THEN [c EXCEPT !.r = EmptyRawMemory]
    ELSE IF Fails(c, 1) THEN [c EXCEPT !.ok = FALSE, !.f = 0]
    ELSE IF FreeBlocks(c.h) = {} THEN [c EXCEPT !.ok = FALSE, !.over = TRUE]
    ELSE [c EXCEPT !.h[NewBlock(c.h)] = [st |-> "live", slots |-> Fill(n, Raw)],
                   !.f = Tick(c, 1),
                   !.al = c.al + 1,
                   !.r = [buffer |-> NewBlock(c.h), capacity |-> n]]

\* Deallocate(buf): operator delete.  Runs during unwinding too.  c.dirty
\* collects blocks released while a slot still held an object, c.twice the
\* blocks released although they were not allocated any more.
Deallocate(c, buf) ==
    IF buf = Null THEN c
    ELSE [c EXCEPT !.h[buf] = [st |-> "released", slots |-> <<>>],
                   !.fr = c.fr \cup {buf},
                   !.dirty = IF c.h[buf].st = "live"
                                 /\ \E j \in 1..Len(c.h[buf].slots) : c.h[buf].slots[j] # Raw
                             THEN c.dirty \cup {buf} ELSE c.dirty,
                   !.twice = IF c.h[buf].st # "live" THEN c.twice \cup {buf} ELSE c.twice]

\* ~RawMemory()
RawMemoryDtor(c, rm) == Deallocate(c, rm.buffer)

\* RawMemory(RawMemory&& other) and operator=(RawMemory&& rhs): std::move of
\* a pointer or a size_t is a copy, so the target takes both fields and the
\* source keeps them; the block the target held is not deallocated.
RawMemoryMove(this, other) ==
    [this |-> [buffer |-> other.buffer, capacity |-> other.capacity], other |-> other]

\* RawMemory::Swap
RawMemorySwap(this, other) == [this |-> other, other |-> this]

\* ------------------------------------------------- operations on elements
\* May constructing a T this way throw?  From arguments or by copy: yes.
\* By move: only if the move constructor is not noexcept.
Fallible(kind) == kind \in {"args", "copy"} \/ (kind = "move" /\ ~T.nothrow_move)

\* the relocation branch of `if constexpr`
RelocateByMove == T.nothrow_move \/ ~T.copyable

Count(c, kind, n) ==
    [c EXCEPT !.cp = IF kind = "copy" THEN @ + n ELSE @,
              !.mv = IF kind = "move" THEN @ + n ELSE @,
              !.ct = IF kind = "args" THEN @ + n ELSE @]

\* new (block + i) T(...) from a value outside the block
ConstructAt(c, b, i, val, kind) ==
    IF ~c.ok THEN c
    ELSE IF Fallible(kind) /\ Fails(c, 1) THEN [c EXCEPT !.ok = FALSE, !.f = 0]
    ELSE Count([c EXCEPT !.h = SetSlots(c.h, b, i, <<val>>),
                         !.f = IF Fallible(kind) THEN Tick(c, 1) ELSE c.f], kind, 1)

\* T elem(args...): a local object; nothing in the heap changes
ConstructLocal(c, kind) ==
    IF ~c.ok THEN c
    ELSE IF Fallible(kind) /\ Fails(c, 1) THEN [c EXCEPT !.ok = FALSE, !.f = 0]
    ELSE Count([c EXCEPT !.f = IF Fallible(kind) THEN Tick(c, 1) ELSE c.f], kind, 1)

\* std::uninitialized_copy_n: a throwing copy destroys the copies made so far
UninitializedCopyN(c, sb, so, n, db, do) ==
    IF ~c.ok \/ n = 0 THEN c
    ELSE IF Fails(c, n) THEN Count([c EXCEPT !.ok = FALSE, !.f = 0], "copy", c.f - 1)
    ELSE Count([c EXCEPT !.h = SetSlots(c.h, db, do, GetSlots(c.h, sb, so, n)),
                         !.f = Tick(c, n)], "copy", n)

\* std::uninitialized_move_n: the sources are left moved-from; a throwing
\* move destroys the objects made so far, the sources already moved stay
\* moved-from, and the source of the throwing move is damaged or not (c.dmg)
UninitializedMoveN(c, sb, so, n, db, do) ==
    IF ~c.ok \/ n = 0 THEN c
    ELSE IF ~T.nothrow_move /\ Fails(c, n) THEN
        Count([c EXCEPT !.ok = FALSE, !.f = 0,
                        !.h = SetSlots(c.h, sb, so,
                                 Fill(IF c.dmg THEN c.f ELSE c.f - 1, MovedFrom))],
              "move", c.f - 1)
    ELSE Count([c EXCEPT !.h = SetSlots(SetSlots(c.h, db, do, GetSlots(c.h, sb, so, n)),
                                        sb, so, Fill(n, MovedFrom)),
                         !.f = IF T.nothrow_move THEN c.f ELSE Tick(c, n)], "move", n)

\* std::uninitialized_value_construct_n
UninitializedValueConstructN(c, b, o, n) ==
    IF ~c.ok \/ n = 0 THEN c
    ELSE IF Fails(c, n) THEN Count([c EXCEPT !.ok = FALSE, !.f = 0], "args", c.f - 1)
    ELSE Count([c EXCEPT !.h = SetSlots(c.h, b, o, Fill(n, Default)), !.f = Tick(c, n)],
               "args", n)

\* std::destroy_n / std::destroy_at
DestroyN(c, b, o, n) ==
    IF ~c.ok \/ n = 0 THEN c
    ELSE [c EXCEPT !.h = SetSlots(c.h, b, o, Fill(n, Raw)), !.ds = @ + n]

\* std::copy_n: copy assignment onto constructed elements; a throwing
\* assignment leaves the earlier targets assigned and its own target either
\* untouched or in an unspecified valid state (c.dmg)
CopyN(c, sb, so, n, db, do) ==
    IF ~c.ok \/ n = 0 THEN c
    ELSE IF Fails(c, n) THEN
        LET done == SetSlots(c.h, db, do, GetSlots(c.h, sb, so, c.f - 1))
        IN  Count([c EXCEPT !.ok = FALSE, !.f = 0,
                            !.h = IF c.dmg THEN SetSlots(done, db, do + c.f - 1, <<MovedFrom>>)
                                  ELSE done],
                  "copy", c.f - 1)
    ELSE Count([c EXCEPT !.h = SetSlots(c.h, db, do, GetSlots(c.h, sb, so, n)),
                         !.f = Tick(c, n)], "copy", n)

\* one move inside block b, slot si to slot di (construction or assignment):
\* the source is left moved-from; a throwing move leaves both objects
\* untouched or damaged (c.dmg); a target that held no object stays Raw
Move1(c, b, si, di) ==
    IF ~c.ok THEN c
    ELSE IF ~T.nothrow_move /\ Fails(c, 1) THEN
        [c EXCEPT !.ok = FALSE, !.f = 0,
                  !.h = IF c.dmg
                        THEN SetSlots(SetSlots(c.h, b, si, <<MovedFrom>>), b, di,
                                      <<IF c.h[b].slots[di + 1] = Raw THEN Raw ELSE MovedFrom>>)
                        ELSE c.h]
    ELSE Count([c EXCEPT !.h = SetSlots(SetSlots(c.h, b, di, <<c.h[b].slots[si + 1]>>),
                                        b, si, <<MovedFrom>>),
                         !.f = IF T.nothrow_move THEN c.f ELSE Tick(c, 1)], "move", 1)

\* block[i] = std::move(elem) for a local elem
MoveAssignAt(c, b, i, val) ==
    IF ~c.ok THEN c
    ELSE IF ~T.nothrow_move /\ Fails(c, 1) THEN
        [c EXCEPT !.ok = FALSE, !.f = 0,
                  !.h = IF c.dmg THEN SetSlots(c.h, b, i, <<MovedFrom>>) ELSE c.h]
    ELSE Count([c EXCEPT !.h = SetSlots(c.h, b, i, <<val>>),
                         !.f = IF T.nothrow_move THEN c.f ELSE Tick(c, 1)], "move", 1)

\* std::move(first, last, d_first) inside one block, front to back
RECURSIVE MoveRange(_, _, _, _, _)
MoveRange(c, b, first, lst, dfirst) ==
    IF ~c.ok \/ first >= lst THEN c
    ELSE MoveRange(Move1(c, b, first, dfirst), b, first + 1, lst, dfirst + 1)

\* std::move_backward(first, last, d_last) inside one block, back to front
RECURSIVE MoveBackward(_, _, _, _, _)
MoveBackward(c, b, first, lst, dlast) ==
    IF ~c.ok \/ first >= lst THEN c
    ELSE MoveBackward(Move1(c, b, lst - 1, dlast - 1), b, first, lst - 1, dlast - 1)

\* ----------------------------------------------------------------- Vector
NoVector == [live |-> FALSE, data |-> EmptyRawMemory, size |-> 0]

\* Vector() = default
VectorDefault(c) == [c EXCEPT !.r = [live |-> TRUE, data |-> EmptyRawMemory, size |-> 0]]

\* explicit Vector(size_t size); the object is left in c.r.  When the body
\* throws, the member data_ is destroyed and there is no object.
VectorSized(c, n) ==
    LET c1   == RawMemoryCtor(c, n)
        data == c1.r
        c2   == UninitializedValueConstructN(c1, data.buffer, 0, n)
    IN  IF ~c1.ok THEN c1
        ELSE IF ~c2.ok THEN RawMemoryDtor(c2, data)
        ELSE [c2 EXCEPT !.r = [live |-> TRUE, data |-> data, size |-> n]]

\* (a copy that takes the source's block instead of copying into its own)
VectorCopyShallow(c, other) == [c EXCEPT !.r = other]

\* Vector(const Vector& other): capacity other.size_
VectorCopy(c, other) ==
    LET c1   == RawMemoryCtor(c, other.size)
        data == c1.r
        c2   == UninitializedCopyN(c1, other.data.buffer, 0, other.size, data.buffer, 0)
    IN  IF ~c1.ok THEN c1
        ELSE IF ~c2.ok THEN RawMemoryDtor(c2, data)
        ELSE [c2 EXCEPT !.r = [live |-> TRUE, data |-> data, size |-> other.size]]

\* (a move constructor that forgets other.data_ = RawMemory<T>())
VectorMoveNoReset(c, v, o) ==
    LET m1 == RawMemoryMove(EmptyRawMemory, c.vec[o].data)
        v1 == [c.vec EXCEPT ![o].data = m1.other,
                            ![v] = [live |-> TRUE, data |-> m1.this, size |-> c.vec[o].size]]
    IN  [c EXCEPT !.vec = [v1 EXCEPT ![o].size = 0]]

\* Vector(Vector&& other) noexcept, constructing object v from object o;
\* c.rm keeps the two RawMemory objects as the move of data_ left them
VectorMove(c, v, o) ==
    LET m1 == RawMemoryMove(EmptyRawMemory, c.vec[o].data)      \* data_(std::move(other.data_))
        v1 == [c.vec EXCEPT ![o].data = m1.other,
                            ![v] = [live |-> TRUE, data |-> m1.this, size |-> c.vec[o].size]]
        m2 == RawMemoryMove(v1[o].data, EmptyRawMemory)         \* other.data_ = RawMemory<T>()
        v2 == [v1 EXCEPT ![o].data = m2.this]
        c2 == RawMemoryDtor(c, m2.other)                        \* the temporary
    IN  [c2 EXCEPT !.vec = [v2 EXCEPT ![o].size = 0], !.rm = m1]

\* ~Vector(), then ~RawMemory() of data_
VectorDtor(c, this) ==
    RawMemoryDtor(DestroyN(c, this.data.buffer, 0, this.size), this.data)

\* Vector::Swap on two Vector values
VectorSwap(this, other) ==
    LET s == RawMemorySwap(this.data, other.data)
    IN  [this  |-> [this EXCEPT !.data = s.this, !.size = other.size],
         other |-> [other EXCEPT !.data = s.other, !.size = this.size]]

\* Swap(Vector& other) on objects v and o (v = o: both std::swap are no-ops)
Swap(c, v, o) ==
    LET s == VectorSwap(c.vec[v], c.vec[o])
    IN  IF v = o THEN c ELSE [c EXCEPT !.vec[v] = s.this, !.vec[o] = s.other]

\* operator=(const Vector& rhs)
CopyAssign(c, v, r) ==
    LET this == c.vec[v]
        rhs  == c.vec[r]
    IN  IF v = r THEN c
        ELSE IF rhs.data.capacity > this.data.capacity THEN
            LET c1 == VectorCopy(c, rhs)                        \* Vector rhs_copy(rhs)
                s  == VectorSwap(this, c1.r)                    \* Swap(rhs_copy)
            IN  IF ~c1.ok THEN c1
                ELSE VectorDtor([c1 EXCEPT !.vec[v] = s.this], s.other)
        ELSE IF this.size > rhs.size THEN
            LET c1 == CopyN(c, rhs.data.buffer, 0, rhs.size, this.data.buffer, 0)
                c2 == DestroyN(c1, this.data.buffer, rhs.size, this.size - rhs.size)
            IN  IF ~c2.ok THEN c2 ELSE [c2 EXCEPT !.vec[v].size = rhs.size]
        ELSE
            LET c1 == CopyN(c, rhs.data.buffer, 0, this.size, this.data.buffer, 0)
                c2 == UninitializedCopyN(c1, rhs.data.buffer, this.size,
                                         rhs.size - this.size, this.data.buffer, this.size)
            IN  IF ~c2.ok THEN c2 ELSE [c2 EXCEPT !.vec[v].size = rhs.size]

\* (a move assignment that forgets rhs.size_ = 0)
MoveAssignKeepSize(c, v, r) ==
    LET m1 == RawMemoryMove(c.vec[v].data, c.vec[r].data)
        v1 == [[c.vec EXCEPT ![r].data = m1.other] EXCEPT ![v].data = m1.this]
        v2 == [v1 EXCEPT ![v].size = v1[r].size]
        m2 == RawMemoryMove(v2[r].data, EmptyRawMemory)
        c2 == RawMemoryDtor(c, m2.other)
    IN  [c2 EXCEPT !.vec = [v2 EXCEPT ![r].data = m2.this]]

\* operator=(Vector&& rhs) noexcept; the statements run in order on the
\* objects, so v = r needs no case of its own
MoveAssign(c, v, r) ==
    LET m1 == RawMemoryMove(c.vec[v].data, c.vec[r].data)       \* data_ = std::move(rhs.data_)
        v1 == [[c.vec EXCEPT ![r].data = m1.other] EXCEPT ![v].data = m1.this]
        v2 == [v1 EXCEPT ![v].size = v1[r].size]
        m2 == RawMemoryMove(v2[r].data, EmptyRawMemory)         \* rhs.data_ = RawMemory<T>()
        v3 == [v2 EXCEPT ![r].data = m2.this]
        c2 == RawMemoryDtor(c, m2.other)
    IN  [c2 EXCEPT !.vec = [v3 EXCEPT ![r].size = 0], !.rm = m1]

\* the copies and moves made between contexts c and r, added to the counts
\* of the copies (rcp) and moves (rmv) that relocations made
CountRelocation(c, r) ==
    [r EXCEPT !.rcp = @ + (r.cp - c.cp), !.rmv = @ + (r.mv - c.mv)]

\* (a relocation that always moves)
RelocateAlwaysMove(c, sb, so, n, db, do) ==
    CountRelocation(c, UninitializedMoveN(c, sb, so, n, db, do))

\* (a relocation that always copies)
RelocateAlwaysCopy(c, sb, so, n, db, do) ==
    CountRelocation(c, UninitializedCopyN(c, sb, so, n, db, do))

\* the relocation of n elements that the `if constexpr` picks
Relocate(c, sb, so, n, db, do) ==
    CountRelocation(c, IF RelocateByMove THEN UninitializedMoveN(c, sb, so, n, db, do)
                       ELSE UninitializedCopyN(c, sb, so, n, db, do))

\* Reserve(size_t new_capacity); new_data is destroyed on every way out
Reserve(c, v, new_capacity) ==
    LET this == c.vec[v]
        c1   == RawMemoryCtor(c, new_capacity)
        nd   == c1.r
        c2   == Relocate(c1, this.data.buffer, 0, this.size, nd.buffer, 0)
        c3   == DestroyN(c2, this.data.buffer, 0, this.size)
        s    == RawMemorySwap(this.data, nd)
    IN  IF ~c.ok \/ new_capacity <= this.data.capacity THEN c
        ELSE IF ~c1.ok THEN c1
        ELSE IF ~c2.ok THEN RawMemoryDtor(c2, nd)
        ELSE RawMemoryDtor([c3 EXCEPT !.vec[v].data = s.this], s.other)

\* (a Resize that value-constructs from the front of the block)
ResizeFromFront(c, v, new_size) ==
    LET this == c.vec[v]
    IN  IF new_size = this.size THEN c
        ELSE IF new_size < this.size THEN
            [DestroyN(c, this.data.buffer, new_size, this.size - new_size)
                EXCEPT !.vec[v].size = new_size]
        ELSE
            LET c1 == Reserve(c, v, new_size)
                c2 == UninitializedValueConstructN(c1, c1.vec[v].data.buffer, 0,
                                                   new_size - this.size)
            IN  IF ~c2.ok THEN c2 ELSE [c2 EXCEPT !.vec[v].size = new_size]

\* Resize(size_t new_size)
Resize(c, v, new_size) ==
    LET this == c.vec[v]
    IN  IF new_size = this.size THEN c
        ELSE IF new_size < this.size THEN
            [DestroyN(c, this.data.buffer, new_size, this.size - new_size)
                EXCEPT !.vec[v].size = new_size]
        ELSE
            LET c1 == Reserve(c, v, new_size)
                c2 == UninitializedValueConstructN(c1, c1.vec[v].data.buffer, this.size,
                                                   new_size - this.size)
            IN  IF ~c2.ok THEN c2 ELSE [c2 EXCEPT !.vec[v].size = new_size]

\* (a growth by one slot instead of doubling)
GrownCapacityByOne(size) == size + 1

\* (size_ == 0) ? 1 : (size_ * 2)
GrownCapacity(size) == IF size = 0 THEN 1 ELSE size * 2

\* the branch size_ == Capacity() of PushBack and EmplaceBack: the new
\* element first, then the relocation, then data_ = std::move(new_data) and
\* new_data = RawMemory<T>(), and new_data destroyed on every way out
AppendGrow(c, v, val, kind) ==
    LET this == c.vec[v]
        c1   == RawMemoryCtor(c, GrownCapacity(this.size))
        nd   == c1.r
        c2   == ConstructAt(c1, nd.buffer, this.size, val, kind)
        c3   == Relocate(c2, this.data.buffer, 0, this.size, nd.buffer, 0)
        c4   == DestroyN(c3, this.data.buffer, 0, this.size)
        m1   == RawMemoryMove(this.data, nd)
        m2   == RawMemoryMove(m1.other, EmptyRawMemory)
        c5   == RawMemoryDtor(c4, m2.other)                     \* the temporary
    IN  IF ~c1.ok THEN c1
        ELSE IF ~c3.ok THEN RawMemoryDtor(c3, nd)
        ELSE RawMemoryDtor([c5 EXCEPT !.vec[v].data = m1.this,
                                      !.vec[v].size = this.size + 1,
                                      !.r = [buffer |-> m1.this.buffer, index |-> this.size]],
                           m2.this)

\* (an in-place append that counts the element before constructing it)
AppendInPlaceCountFirst(c, v, val, kind) ==
    LET this == c.vec[v]
        c1   == ConstructAt(c, this.data.buffer, this.size, val, kind)
    IN  [c1 EXCEPT !.vec[v].size = this.size + 1,
                   !.r = [buffer |-> this.data.buffer, index |-> this.size]]

\* (an in-place append that forgets ++size_)
AppendInPlaceNoCount(c, v, val, kind) ==
    ConstructAt(c, c.vec[v].data.buffer, c.vec[v].size, val, kind)

\* the branch size_ < Capacity() of PushBack and EmplaceBack
AppendInPlace(c, v, val, kind) ==
    LET this == c.vec[v]
        c1   == ConstructAt(c, this.data.buffer, this.size, val, kind)
    IN  IF ~c1.ok THEN c1
        ELSE [c1 EXCEPT !.vec[v].size = this.size + 1,
                        !.r = [buffer |-> this.data.buffer, index |-> this.size]]

\* (a PushBack that reallocates one element too early)
PushBackEarlyGrow(c, v, val, rvalue) ==
    IF c.vec[v].size + 1 >= c.vec[v].data.capacity
    THEN AppendGrow(c, v, val, IF rvalue THEN "move" ELSE "copy")
    ELSE AppendInPlace(c, v, val, IF rvalue THEN "move" ELSE "copy")

\* PushBack(const T&) (rvalue = FALSE) and PushBack(T&&) (rvalue = TRUE)
PushBack(c, v, val, rvalue) ==
    IF c.vec[v].size = c.vec[v].data.capacity
    THEN AppendGrow(c, v, val, IF rvalue THEN "move" ELSE "copy")
    ELSE AppendInPlace(c, v, val, IF rvalue THEN "move" ELSE "copy")

\* EmplaceBack(Args&&...): kind says which constructor of T the arguments pick
EmplaceBack(c, v, val, kind) ==
    IF c.vec[v].size = c.vec[v].data.capacity
    THEN AppendGrow(c, v, val, kind)
    ELSE AppendInPlace(c, v, val, kind)

\* (a growing Emplace that relocates the suffix to index instead of index + 1)
EmplaceGrowSuffixAtIndex(c, v, index, val, kind) ==
    LET this == c.vec[v]
        c1   == RawMemoryCtor(c, GrownCapacity(this.size))
        nd   == c1.r
        c2   == ConstructAt(c1, nd.buffer, index, val, kind)
        c3   == Relocate(c2, this.data.buffer, 0, index, nd.buffer, 0)
        c4   == Relocate(c3, this.data.buffer, index, this.size - index, nd.buffer, index)
        c5   == DestroyN(c4, this.data.buffer, 0, this.size)
        m1   == RawMemoryMove(this.data, nd)
        m2   == RawMemoryMove(m1.other, EmptyRawMemory)
        c6   == RawMemoryDtor(c5, m2.other)
    IN  IF ~c1.ok THEN c1
        ELSE IF ~c4.ok THEN RawMemoryDtor(c4, nd)
        ELSE RawMemoryDtor([c6 EXCEPT !.vec[v].data = m1.this,
                                      !.vec[v].size = this.size + 1],
                           m2.this)

\* the branch size_ == Capacity() of Emplace
EmplaceGrow(c, v, index, val, kind) ==
    LET this == c.vec[v]
        c1   == RawMemoryCtor(c, GrownCapacity(this.size))
        nd   == c1.r
        c2   == ConstructAt(c1, nd.buffer, index, val, kind)
        c3   == Relocate(c2, this.data.buffer, 0, index, nd.buffer, 0)
        c4   == Relocate(c3, this.data.buffer, index, this.size - index, nd.buffer, index + 1)
        c5   == DestroyN(c4, this.data.buffer, 0, this.size)
        m1   == RawMemoryMove(this.data, nd)
        m2   == RawMemoryMove(m1.other, EmptyRawMemory)
        c6   == RawMemoryDtor(c5, m2.other)
    IN  IF ~c1.ok THEN c1
        ELSE IF ~c4.ok THEN RawMemoryDtor(c4, nd)
        ELSE RawMemoryDtor([c6 EXCEPT !.vec[v].data = m1.this,
                                      !.vec[v].size = this.size + 1],
                           m2.this)

\* the branch size_ < Capacity() of Emplace: nothing is undone when a step
\* throws; c.stage says which one did: the construction of elem ("temp"), of
\* the new back element ("back"), or a move assignment after it ("shift")
EmplaceInPlace(c, v, index, val, kind) ==
    LET this == c.vec[v]
        b    == this.data.buffer
        c1   == ConstructLocal(c, kind)                          \* T elem(args...)
        c2   == Move1(c1, b, this.size - 1, this.size)           \* new (data_ + size_) T(std::move(back))
        c3   == MoveBackward(c2, b, index, this.size - 1, this.size)
        c4   == MoveAssignAt(c3, b, index, val)                  \* data_[index] = std::move(elem)
    IN  IF ~c1.ok THEN [c1 EXCEPT !.stage = "temp"]
        ELSE IF ~c2.ok THEN [c2 EXCEPT !.stage = "back"]
        ELSE IF ~c4.ok THEN [c4 EXCEPT !.stage = "shift"]
        ELSE [c4 EXCEPT !.vec[v].size = this.size + 1]

\* Emplace(const_iterator pos, Args&&...), index = pos - begin()
Emplace(c, v, index, val, kind) ==
    LET c1 == IF c.vec[v].size = index THEN EmplaceBack(c, v, val, kind)
              ELSE IF c.vec[v].size = c.vec[v].data.capacity
                   THEN EmplaceGrow(c, v, index, val, kind)
              ELSE EmplaceInPlace(c, v, index, val, kind)
    IN  IF ~c1.ok THEN c1
        ELSE [c1 EXCEPT !.r = [buffer |-> c1.vec[v].data.buffer, index |-> index]]

\* Insert(pos, const T&) and Insert(pos, T&&)
Insert(c, v, index, val, rvalue) == Emplace(c, v, index, val, IF rvalue THEN "move" ELSE "copy")

\* (an Erase that destroys the slot at pos instead of the vacated last one)
EraseDestroyAtPos(c, v, index) ==
    LET this == c.vec[v]
        b    == this.data.buffer
        c1   == MoveRange(c, b, index + 1, this.size, index)
        c2   == DestroyN(c1, b, index, 1)
    IN  IF ~c2.ok THEN c2
        ELSE [c2 EXCEPT !.vec[v].size = this.size - 1,
                        !.r = [buffer |-> b, index |-> index]]

\* (an Erase that drops the last element instead of the one at pos)
EraseNoShift(c, v, index) ==
    LET this == c.vec[v]
        c2   == DestroyN(c, this.data.buffer, this.size - 1, 1)
    IN  [c2 EXCEPT !.vec[v].size = this.size - 1,
                   !.r = [buffer |-> this.data.buffer, index |-> index]]

\* Erase(const_iterator pos)
Erase(c, v, index) ==
    LET this == c.vec[v]
        b    == this.data.buffer
        c1   == MoveRange(c, b, index + 1, this.size, index)
        c2   == DestroyN(c1, b, this.size - 1, 1)
    IN  IF ~c2.ok THEN c2
        ELSE [c2 EXCEPT !.vec[v].size = this.size - 1,
                        !.r = [buffer |-> b, index |-> index]]

\* (a PopBack that forgets std::destroy_at)
PopBackNoDestroy(c, v) == [c EXCEPT !.vec[v].size = c.vec[v].size - 1]

\* PopBack()
PopBack(c, v) ==
    [DestroyN(c, c.vec[v].data.buffer, c.vec[v].size - 1, 1)
        EXCEPT !.vec[v].size = c.vec[v].size - 1]

\* ------------------------------------------------------------ the program
\* what a caller can observe of Vector object v, and the elements it holds
Elems(vs, h, v) == GetSlots(h, vs[v].data.buffer, 0, vs[v].size)

View(vs, h, v) ==
    [live     |-> vs[v].live,
     size     |-> vs[v].size,
     capacity |-> vs[v].data.capacity,
     buffer   |-> vs[v].data.buffer,
     elems    |-> Elems(vs, h, v)]

NoRet == [buffer |-> Null, index |-> 0]

\* c.rm when the operation has moved no RawMemory of a Vector
NoMove == [this |-> EmptyRawMemory, other |-> EmptyRawMemory]

\* the context an operation starts in: the f-th fallible step will throw
Ctx(f, dmg) ==
    [h |-> heap, vec |-> vec, f |-> f, dmg |-> dmg, ok |-> TRUE, over |-> FALSE,
     r |-> NoRet, cp |-> 0, mv |-> 0, ct |-> 0, ds |-> 0, al |-> 0,
     fr |-> {}, dirty |-> {}, twice |-> {}, stage |-> "", rcp |-> 0, rmv |-> 0,
     rm |-> NoMove]

\* the injected failures: which fallible step throws, and, where a throwing
\* move or assignment can leave its operands in either state, which one
Failures(damage) ==
    {<<0, FALSE>>} \cup ((1..MaxFail) \X (IF damage THEN BOOLEAN ELSE {FALSE}))

\* The blocks no Vector refers to when an operation returns.  No later
\* operation can reach them, so the state keeps nothing of them and their
\* addresses count as unused again; `last` records the ones that were still
\* allocated (leaked) and how many objects they held (lost).
Referenced(vs) == {vs[v].data.buffer : v \in VecIds} \ {Null}
Leaked(h, vs) == {b \in Blocks \ Referenced(vs) : h[b].st = "live"}
Objects(h, b) == Cardinality({j \in 1..Len(h[b].slots) : h[b].slots[j] # Raw})

RECURSIVE SumObjects(_, _)
SumObjects(h, bs) ==
    IF bs = {} THEN 0
    ELSE LET b == CHOOSE x \in bs : TRUE IN Objects(h, b) + SumObjects(h, bs \ {b})

Collect(h, vs) ==
    [b \in Blocks |-> IF b \in Referenced(vs) THEN h[b] ELSE [st |-> "free", slots |-> <<>>]]

TotalCapacity(vs) == vs[1].data.capacity + vs[2].data.capacity

NoView == [live |-> FALSE, size |-> 0, capacity |-> 0, buffer |-> Null, elems |-> <<>>]

\* between two calls: nothing is recorded
Idle ==
    [op |-> "idle", v |-> 1, w |-> 0, arg |-> 0, val |-> 0, path |-> "", stage |-> "",
     ok |-> TRUE, ret |-> NoRet, pre |-> NoView, prew |-> NoView,
     cp |-> 0, mv |-> 0, ct |-> 0, ds |-> 0, al |-> 0, rcp |-> 0, rmv |-> 0,
     fr |-> {}, dirty |-> {}, twice |-> {}, leaked |-> {}, lost |-> 0, rm |-> NoMove]

\* History of the calls made on Vector 1 since it was default-constructed,
\* kept when hist.tracking:
\*   seq    the values appended by PushBack/EmplaceBack and not yet removed
\*          by PopBack, in order; meaningful while `on`, that is as long as
\*          every call was a PushBack, EmplaceBack, PopBack or Reserve that
\*          returned normally
\*   alone  only PushBack and EmplaceBack have been called
\*   resv   the n of the last Reserve(n) that returned, if only PushBack and
\*          EmplaceBack have been called since; 0 otherwise
\*   ins    <<i, elements before, "inserted">> when the last call was an
\*          Insert at index i that returned; <<i, elements before, "erased">>
\*          when the call after that Insert was Erase at index i; else <<>>
NoHist == [tracking |-> FALSE, on |-> FALSE, seq |-> <<>>, alone |-> FALSE, resv |-> 0,
           ins |-> <<>>]
NewHist == [tracking |-> TRUE, on |-> TRUE, seq |-> <<>>, alone |-> TRUE, resv |-> 0,
            ins |-> <<>>]

Appends == {"PushBack", "EmplaceBack"}

Track(h, op, arg, val, ok, before) ==
    IF ~h.tracking THEN h
    ELSE LET on == h.on /\ ok /\ op \in Appends \cup {"PopBack", "Reserve"}
         IN  [tracking |-> TRUE,
              on    |-> on,
              seq   |-> IF ~on THEN <<>>
                        ELSE IF op \in Appends THEN Append(h.seq, val)
                        ELSE IF op = "PopBack" THEN SubSeq(h.seq, 1, Len(h.seq) - 1)
                        ELSE h.seq,
              alone |-> h.alone /\ op \in Appends,
              resv  |-> IF op = "Reserve" THEN (IF ok THEN arg ELSE 0)
                        ELSE IF op \in Appends THEN h.resv
                        ELSE 0,
              ins   |-> IF op = "Insert" /\ ok THEN <<arg, before, "inserted">>
                        ELSE IF op = "Erase" /\ h.ins # <<>> /\ h.ins[3] = "inserted"
                                /\ h.ins[1] = arg
                             THEN <<arg, h.ins[2], "erased">>
                        ELSE <<>>]

\* the state after the operation, and the record of what it was and did; an
\* injected failure that the operation never reached is the run without it
Commit(c, vs, op, v, w, arg, val, path, ret) ==
    /\ ~c.over
    /\ c.f = 0
    /\ TotalCapacity(vs) <= MaxSlots
    /\ heap' = Collect(c.h, vs)
    /\ vec' = vs
    /\ T' = T
    /\ hist' = Track(hist, op, arg, val, c.ok, Elems(vec, heap, v))
    /\ last' = [op |-> op, v |-> v, w |-> w, arg |-> arg, val |-> val, path |-> path,
                stage |-> c.stage,
                ok |-> c.ok, ret |-> IF c.ok THEN ret ELSE NoRet,
                pre |-> View(vec, heap, v),
                prew |-> IF w = 0 THEN NoView ELSE View(vec, heap, w),
                cp |-> c.cp, mv |-> c.mv, ct |-> c.ct, ds |-> c.ds, al |-> c.al,
                rcp |-> c.rcp, rmv |-> c.rmv, rm |-> c.rm,
                fr |-> c.fr, dirty |-> c.dirty, twice |-> c.twice,
                leaked |-> Leaked(c.h, vs), lost |-> SumObjects(c.h, Leaked(c.h, vs))]

Init ==
    /\ heap = [b \in Blocks |-> [st |-> "free", slots |-> <<>>]]
    /\ vec = [v \in VecIds |-> [live |-> TRUE, data |-> EmptyRawMemory, size |-> 0]]
    /\ T \in ElemTypes
    /\ last = Idle
    /\ hist = NoHist

DefaultConstruct(v) ==
    /\ last.op = "idle"
    /\ ~vec[v].live
    /\ LET c == VectorDefault(Ctx(0, FALSE))
       IN  Commit(c, [c.vec EXCEPT ![v] = c.r], "Vector()", v, 0, 0, 0, "", NoRet)

SizedConstruct(v, n, fd) ==
    /\ last.op = "idle"
    /\ ~vec[v].live
    /\ LET c == VectorSized(Ctx(fd[1], fd[2]), n)
       IN  Commit(c, IF c.ok THEN [c.vec EXCEPT ![v] = c.r] ELSE c.vec,
                  "Vector(n)", v, 0, n, 0, "", NoRet)

CopyConstruct(v, o, fd) ==
    /\ last.op = "idle"
    /\ ~vec[v].live /\ vec[o].live /\ T.copyable
    /\ LET c == VectorCopy(Ctx(fd[1], fd[2]), vec[o])
       IN  Commit(c, IF c.ok THEN [c.vec EXCEPT ![v] = c.r] ELSE c.vec,
                  "Vector(const&)", v, o, 0, 0, "", NoRet)

MoveConstruct(v, o) ==
    /\ last.op = "idle"
    /\ ~vec[v].live /\ vec[o].live
    /\ LET c == VectorMove(Ctx(0, FALSE), v, o)
       IN  Commit(c, c.vec, "Vector(&&)", v, o, 0, 0, "", NoRet)

Destroy(v) ==
    /\ last.op = "idle"
    /\ vec[v].live
    /\ LET c == VectorDtor(Ctx(0, FALSE), vec[v])
       IN  Commit(c, [c.vec EXCEPT ![v] = NoVector], "~Vector", v, 0, 0, 0, "", NoRet)

CopyAssignOp(v, r, fd) ==
    /\ last.op = "idle"
    /\ vec[v].live /\ vec[r].live /\ T.copyable
    /\ LET c == CopyAssign(Ctx(fd[1], fd[2]), v, r)
       IN  Commit(c, c.vec, "=(const&)", v, r, 0, 0,
                  IF v = r THEN "self"
                  ELSE IF vec[r].data.capacity > vec[v].data.capacity THEN "realloc"
                  ELSE IF vec[v].size > vec[r].size THEN "shrink" ELSE "extend", NoRet)

MoveAssignOp(v, r) ==
    /\ last.op = "idle"
    /\ vec[v].live /\ vec[r].live
    /\ LET c == MoveAssign(Ctx(0, FALSE), v, r)
       IN  Commit(c, c.vec, "=(&&)", v, r, 0, 0, IF v = r THEN "self" ELSE "", NoRet)

ReserveOp(v, n, fd) ==
    /\ last.op = "idle"
    /\ vec[v].live
    /\ LET c == Reserve(Ctx(fd[1], fd[2]), v, n)
       IN  Commit(c, c.vec, "Reserve", v, 0, n, 0,
                  IF n <= vec[v].data.capacity THEN "noop" ELSE "realloc", NoRet)

ResizeOp(v, n, fd) ==
    /\ last.op = "idle"
    /\ vec[v].live
    /\ LET c == Resize(Ctx(fd[1], fd[2]), v, n)
       IN  Commit(c, c.vec, "Resize", v, 0, n, 0,
                  IF n <= vec[v].data.capacity THEN "inplace" ELSE "realloc", NoRet)

GrowPath(v) == IF vec[v].size = vec[v].data.capacity THEN "grow" ELSE "inplace"

PushBackOp(v, val, rvalue, fd) ==
    /\ last.op = "idle"
    /\ vec[v].live /\ (rvalue \/ T.copyable)
    /\ LET c == PushBack(Ctx(fd[1], fd[2]), v, val, rvalue)
       IN  Commit(c, c.vec, "PushBack", v, 0, vec[v].size, val, GrowPath(v), NoRet)

EmplaceBackOp(v, val, fd) ==
    /\ last.op = "idle"
    /\ vec[v].live
    /\ LET c == EmplaceBack(Ctx(fd[1], fd[2]), v, val, "args")
       IN  Commit(c, c.vec, "EmplaceBack", v, 0, vec[v].size, val, GrowPath(v), c.r)

EmplaceOp(v, index, val, fd) ==
    /\ last.op = "idle"
    /\ vec[v].live /\ index <= vec[v].size
    /\ LET c == Emplace(Ctx(fd[1], fd[2]), v, index, val, "args")
       IN  Commit(c, c.vec, "Emplace", v, 0, index, val,
                  IF index = vec[v].size THEN "back" ELSE GrowPath(v), c.r)

InsertOp(v, index, val, rvalue, fd) ==
    /\ last.op = "idle"
    /\ vec[v].live /\ index <= vec[v].size /\ (rvalue \/ T.copyable)
    /\ LET c == Insert(Ctx(fd[1], fd[2]), v, index, val, rvalue)
       IN  Commit(c, c.vec, "Insert", v, 0, index, val,
                  IF index = vec[v].size THEN "back" ELSE GrowPath(v), c.r)

EraseOp(v, index, fd) ==
    /\ last.op = "idle"
    /\ vec[v].live /\ index < vec[v].size
    /\ LET c == Erase(Ctx(fd[1], fd[2]), v, index)
       IN  Commit(c, c.vec, "Erase", v, 0, index, 0, "", c.r)

PopBackOp(v) ==
    /\ last.op = "idle"
    /\ vec[v].live /\ vec[v].size > 0
    /\ LET c == PopBack(Ctx(0, FALSE), v)
       IN  Commit(c, c.vec, "PopBack", v, 0, 0, 0, "", NoRet)

SwapOp(v, o) ==
    /\ last.op = "idle"
    /\ vec[v].live /\ vec[o].live
    /\ LET c == Swap(Ctx(0, FALSE), v, o)
       IN  Commit(c, c.vec, "Swap", v, o, 0, 0, IF v = o THEN "self" ELSE "", NoRet)

\* An address means nothing beyond being equal to another or not.  Between
\* two calls the blocks are renamed in the order of the Vectors that refer
\* to them: Name(vs, b) is the new name of block b.
FirstRef(vs, b) == CHOOSE v \in VecIds : vs[v].data.buffer = b
                                        /\ \A u \in VecIds : vs[u].data.buffer = b => v <= u
Name(vs, b) ==
    IF b = Null THEN Null
    ELSE 1 + Cardinality({b2 \in Referenced(vs) : FirstRef(vs, b2) < FirstRef(vs, b)})

Renamed(h, vs) ==
    [b \in Blocks |->
        IF \E old \in Referenced(vs) : Name(vs, old) = b
        THEN h[CHOOSE old \in Referenced(vs) : Name(vs, old) = b]
        ELSE [st |-> "free", slots |-> <<>>]]

\* the caller takes the result; the record of the call is dropped
Return ==
    /\ last.op # "idle"
    /\ last' = Idle
    /\ heap' = Renamed(heap, vec)
    /\ vec' = [v \in VecIds |-> [vec[v] EXCEPT !.data.buffer = Name(vec, @)]]
    /\ UNCHANGED <<T, hist>>

Next ==
    \/ Return
    \/ \E v \in VecIds : DefaultConstruct(v)
    \/ \E v \in VecIds, n \in 0..MaxSlots, fd \in Failures(FALSE) : SizedConstruct(v, n, fd)
    \/ \E v \in VecIds, o \in VecIds, fd \in Failures(FALSE) : CopyConstruct(v, o, fd)
    \/ \E v \in VecIds, o \in VecIds : MoveConstruct(v, o)
    \/ \E v \in VecIds : Destroy(v)
    \/ \E v \in VecIds, r \in VecIds, fd \in Failures(TRUE) : CopyAssignOp(v, r, fd)
    \/ \E v \in VecIds, r \in VecIds : MoveAssignOp(v, r)
    \/ \E v \in Mutated, n \in 0..MaxSlots, fd \in Failures(~T.nothrow_move) : ReserveOp(v, n, fd)
    \/ \E v \in Mutated, n \in 0..MaxSlots, fd \in Failures(~T.nothrow_move) : ResizeOp(v, n, fd)
    \/ \E v \in Mutated, val \in Values, rv \in BOOLEAN, fd \in Failures(~T.nothrow_move) :
          PushBackOp(v, val, rv, fd)
    \/ \E v \in Mutated, val \in Values, fd \in Failures(~T.nothrow_move) : EmplaceBackOp(v, val, fd)
    \/ \E v \in Mutated, i \in 0..MaxSlots, val \in Values, fd \in Failures(~T.nothrow_move) :
          EmplaceOp(v, i, val, fd)
    \/ \E v \in Mutated, i \in 0..MaxSlots, val \in Values, rv \in BOOLEAN, fd \in Failures(~T.nothrow_move) :
          InsertOp(v, i, val, rv, fd)
    \/ \E v \in Mutated, i \in 0..MaxSlots, fd \in Failures(~T.nothrow_move) : EraseOp(v, i, fd)
    \/ \E v \in Mutated : PopBackOp(v)
    \/ \E v \in VecIds, o \in VecIds : SwapOp(v, o)

Spec == Init /\ [][Next]_vars

\* One Vector, default-constructed, on which the program only calls Reserve,
\* PushBack, EmplaceBack, Emplace, Insert, Erase and PopBack, with the
\* history kept.
InitSeq ==
    /\ heap = [b \in Blocks |-> [st |-> "free", slots |-> <<>>]]
    /\ vec = [v \in VecIds |-> [live |-> v \in Mutated, data |-> EmptyRawMemory, size |-> 0]]
    /\ T \in ElemTypes
    /\ last = Idle
    /\ hist = NewHist

NextSeq ==
    \/ Return
    \/ \E v \in Mutated, n \in 0..MaxSlots, fd \in Failures(~T.nothrow_move) : ReserveOp(v, n, fd)
    \/ \E v \in Mutated, val \in Values, rv \in BOOLEAN, fd \in Failures(~T.nothrow_move) :
          PushBackOp(v, val, rv, fd)
    \/ \E v \in Mutated, val \in Values, fd \in Failures(~T.nothrow_move) : EmplaceBackOp(v, val, fd)
    \/ \E v \in Mutated, i \in 0..MaxSlots, val \in Values, fd \in Failures(~T.nothrow_move) :
          EmplaceOp(v, i, val, fd)
    \/ \E v \in Mutated, i \in 0..MaxSlots, val \in Values, rv \in BOOLEAN, fd \in Failures(~T.nothrow_move) :
          InsertOp(v, i, val, rv, fd)
    \/ \E v \in Mutated, i \in 0..MaxSlots, fd \in Failures(~T.nothrow_move) : EraseOp(v, i, fd)
    \/ \E v \in Mutated : PopBackOp(v)

SeqSpec == InitSeq /\ [][NextSeq]_vars

\* ------------------------------------------------------------ properties
\* Vector v of state (vs, h) keeps the representation: size within the
\* capacity, the block allocated with capacity slots, an object in every
\* slot below size and none in the slots from size on
Partition(vs, h, v) ==
    LET d == vs[v]
    IN  d.live =>
          /\ 0 <= d.size /\ d.size <= d.data.capacity
          /\ IF d.data.buffer = Null THEN d.data.capacity = 0
             ELSE /\ h[d.data.buffer].st = "live"
                  /\ Len(h[d.data.buffer].slots) = d.data.capacity
                  /\ \A j \in 1..d.data.capacity :
                        (j <= d.size) <=> (h[d.data.buffer].slots[j] # Raw)

\* C1 (as stated): after any sequence of public operations whose
\* preconditions are met, every live Vector has 0 <= size <= capacity, an
\* object in every slot of [0, size) and none in [size, capacity).
C1_PartitionAlways == \A v \in VecIds : Partition(vec, heap, v)

\* an Emplace/Insert into spare capacity, before the end, that threw after
\* the new back element was constructed: the object stays in slot size
ShiftThrew(l) == l.op \in {"Emplace", "Insert"} /\ ~l.ok /\ l.stage = "shift"

\* C1 (amended): every public operation whose preconditions are met, whether
\* it returns or throws, takes Vectors that keep the representation to
\* Vectors that keep it, unless it is an in-place Emplace/Insert whose
\* shifting step throws.
C1_PartitionKept ==
    [][(C1_PartitionAlways /\ ~ShiftThrew(last')) => C1_PartitionAlways']_vars

\* an in-place Emplace/Insert returned, or threw before its shifting steps,
\* and the representation is intact
C1_Witness ==
    /\ last.op \in {"Emplace", "Insert"} /\ last.path = "inplace"
    /\ last.ok \/ last.stage = "back"
    /\ vec[last.v].size > 0
    /\ C1_PartitionAlways

\* C2: for every sequence of PushBack and PopBack calls on a Vector that
\* started empty (EmplaceBack and Reserve allowed in between, every call
\* returning normally), Size() is the number of pushes minus the number of
\* pops and the elements are the pushed values not yet popped, in the order
\* pushed, however many reallocations happened.
C2_PushPopOrder ==
    hist.on => /\ vec[1].size = Len(hist.seq)
               /\ Elems(vec, heap, 1) = hist.seq

\* a PopBack after at least three pushes of different values and two
\* reallocations
C2_Witness ==
    /\ hist.on /\ last.op = "PopBack"
    /\ Len(hist.seq) >= 2 /\ hist.seq[1] # hist.seq[2]
    /\ vec[1].data.capacity >= 4

\* the operations claim C3 says never leave a Vector with less capacity
CapacityKeepers ==
    {"=(const&)", "Reserve", "Resize", "PushBack", "EmplaceBack", "Emplace", "Insert",
     "Erase", "PopBack"}

\* C3: copy assignment, Reserve, Resize, PushBack, EmplaceBack,
\* Emplace/Insert, Erase and PopBack never leave the Vector they are called
\* on with a smaller capacity than it had before the call.
C3_CapacityNeverShrinks ==
    last.op \in CapacityKeepers => vec[last.v].data.capacity >= last.pre.capacity

\* the least power of two that is at least n, and 0 for n = 0
RECURSIVE PowerOfTwoFrom(_, _)
PowerOfTwoFrom(p, n) == IF p >= n THEN p ELSE PowerOfTwoFrom(2 * p, n)
DoublingCapacity(n) == IF n = 0 THEN 0 ELSE PowerOfTwoFrom(1, n)

\* C4: PushBack, EmplaceBack, Emplace or Insert called with size = capacity
\* leaves the capacity max(1, 2 * old capacity), and called with
\* size < capacity leaves it unchanged; so a Vector that started empty and
\* was only appended to has capacity 0, 1, 2, 4, 8, ...: the least power of
\* two that holds its elements.
C4_Doubling ==
    /\ (last.op \in {"PushBack", "EmplaceBack", "Emplace", "Insert"} /\ last.ok) =>
            vec[last.v].data.capacity =
                IF last.pre.size = last.pre.capacity THEN Max(1, 2 * last.pre.capacity)
                ELSE last.pre.capacity
    /\ hist.alone => vec[1].data.capacity = DoublingCapacity(vec[1].size)

\* the append that takes a Vector grown by appends alone from capacity 2 to 4
C4_Witness ==
    /\ hist.alone /\ last.op \in Appends /\ last.ok
    /\ last.pre.size = last.pre.capacity /\ last.pre.capacity = 2
    /\ vec[1].data.capacity = 4

\* C5: after Reserve(n), PushBack/EmplaceBack calls that keep the size
\* within n neither change Capacity() nor allocate; Reserve(n) with
\* n <= capacity changes nothing; Reserve(n) with n > capacity gives capacity
\* exactly n and leaves size and elements as they were.
C5_Reserve ==
    /\ (last.op \in Appends /\ hist.resv # 0 /\ last.pre.size < hist.resv) =>
            /\ vec[last.v].data.capacity = last.pre.capacity
            /\ last.al = 0
    /\ (last.op = "Reserve" /\ last.ok) =>
            IF last.arg <= last.pre.capacity
            THEN View(vec, heap, last.v) = last.pre /\ last.al = 0
            ELSE /\ vec[last.v].data.capacity = last.arg
                 /\ vec[last.v].size = last.pre.size
                 /\ Elems(vec, heap, last.v) = last.pre.elems

\* Reserve(3) on a Vector of capacity below 3, then appends up to size 3
C5_Witness ==
    /\ last.op \in Appends /\ last.ok
    /\ hist.resv = 3 /\ vec[1].size = 3 /\ vec[1].data.capacity = 3

\* sequence s with x inserted before its element of index i (counted from 0)
InsertedAt(s, i, x) == SubSeq(s, 1, i) \o <<x>> \o SubSeq(s, i + 1, Len(s))

\* C6: Emplace/Insert of value x at index i of a Vector holding c leaves it
\* holding c[0..i), x, c[i..size), one element more, and returns an iterator
\* to index i of the block the Vector has now; on all three paths.
C6_InsertAt ==
    (last.op \in {"Emplace", "Insert"} /\ last.ok) =>
        /\ Elems(vec, heap, last.v) = InsertedAt(last.pre.elems, last.arg, last.val)
        /\ vec[last.v].size = last.pre.size + 1
        /\ last.ret = [buffer |-> vec[last.v].data.buffer, index |-> last.arg]

\* an insertion of a new value into the middle of a full Vector
C6_Witness ==
    /\ last.op \in {"Emplace", "Insert"} /\ last.ok /\ last.path = "grow"
    /\ last.pre.size = 2 /\ last.arg = 1
    /\ last.pre.elems[1] # last.pre.elems[2]

\* C7: Insert at index i followed by Erase at index i leaves the elements
\* and the size the Vector had before the Insert.
C7_InsertErase ==
    (last.op = "Erase" /\ last.ok /\ hist.ins # <<>> /\ hist.ins[3] = "erased") =>
        /\ Elems(vec, heap, last.v) = hist.ins[2]
        /\ vec[last.v].size = Len(hist.ins[2])

\* an Insert before the end of a Vector of two different elements, then the
\* Erase at the same index
C7_Witness ==
    /\ last.op = "Erase" /\ last.ok
    /\ hist.ins # <<>> /\ hist.ins[3] = "erased"
    /\ Len(hist.ins[2]) >= 2 /\ hist.ins[1] = 0
    /\ hist.ins[2][1] # hist.ins[2][2]

Copies == {"Vector(const&)", "=(const&)"}

\* the Vectors an operation may change: the one it is called on and, for a
\* move or a swap, its argument
Touched(l) == {l.v} \cup (IF l.op \in Copies THEN {} ELSE {l.w})

\* C8: a Vector copy-constructed or copy-assigned from a source has the
\* source's size and elements, in a block of its own, and the source is as
\* it was; and no operation on one Vector changes the size, capacity, block
\* or elements of another.
C8_CopyIndependent ==
    [][/\ (last'.op \in Copies /\ last'.ok /\ last'.v # last'.w) =>
            /\ vec'[last'.v].size = last'.prew.size
            /\ Elems(vec', heap', last'.v) = last'.prew.elems
            /\ View(vec', heap', last'.w) = last'.prew
            /\ \/ vec'[last'.v].data.buffer = Null
               \/ vec'[last'.v].data.buffer # vec'[last'.w].data.buffer
       /\ last'.op # "idle" =>
            \A u \in VecIds \ Touched(last') : View(vec', heap', u) = View(vec, heap, u)
      ]_vars

\* a copy of a Vector of two different elements
C8_Witness ==
    /\ last.op \in Copies /\ last.ok /\ last.v # last.w
    /\ last.prew.size = 2 /\ last.prew.elems[1] # last.prew.elems[2]
    /\ vec[last.v].data.buffer # vec[last.w].data.buffer

Moves == {"Vector(&&)", "=(&&)"}

\* C9: move construction and move assignment from another Vector give the
\* target the source's block, capacity, size and elements, construct, copy
\* and move no element, and leave the source with size 0 and capacity 0.
C9_MoveTransfers ==
    (last.op \in Moves /\ last.v # last.w) =>
        /\ View(vec, heap, last.v) = last.prew
        /\ last.cp = 0 /\ last.mv = 0 /\ last.ct = 0
        /\ vec[last.w].size = 0 /\ vec[last.w].data.capacity = 0

\* a move assignment of a Vector of two elements to a Vector of one
C9_Witness ==
    /\ last.op = "=(&&)" /\ last.v # last.w
    /\ last.prew.size = 2 /\ last.pre.size = 1
    /\ vec[last.v].size = 2

\* the calls that reallocate: Reserve beyond the capacity, an append or
\* insertion into a full Vector, copy assignment from a larger capacity
Reallocating(l) ==
    \/ l.op = "Reserve" /\ l.path = "realloc"
    \/ l.op \in {"PushBack", "EmplaceBack", "Emplace", "Insert"} /\ l.pre.size = l.pre.capacity
    \/ l.op = "=(const&)" /\ l.path = "realloc"

\* C10 (as stated): when a reallocating call fails, the Vector has the
\* size, capacity, block and element values it had before the call,
\* whichever relocation the element type selects.
C10_StrongAlways ==
    (Reallocating(last) /\ ~last.ok) => View(vec, heap, last.v) = last.pre

\* C10 (amended): when a reallocating call fails, the Vector has the size,
\* capacity and block it had before the call, and the element values too
\* unless the element type is one that cannot be copied and whose move can
\* throw.
C10_StrongUnlessThrowingMoveOnly ==
    (Reallocating(last) /\ ~last.ok) =>
        /\ vec[last.v] = [live |-> TRUE,
                          data |-> [buffer |-> last.pre.buffer, capacity |-> last.pre.capacity],
                          size |-> last.pre.size]
        /\ (T.nothrow_move \/ T.copyable) => View(vec, heap, last.v) = last.pre

\* relocation by copy threw on its second element
C10_Witness ==
    /\ Reallocating(last) /\ ~last.ok
    /\ ~RelocateByMove /\ last.cp = 1 /\ last.al = 1
    /\ last.pre.size >= 2 /\ View(vec, heap, last.v) = last.pre

\* a call with spare capacity that threw while constructing the new element
\* (PushBack, EmplaceBack, Emplace/Insert at the end) or the temporary
\* (Emplace/Insert before the end)
InPlaceConstructionThrew(l) ==
    /\ ~l.ok /\ l.pre.size < l.pre.capacity
    /\ \/ l.op \in Appends
       \/ l.op \in {"Emplace", "Insert"} /\ (l.path = "back" \/ l.stage = "temp")

\* C11: when the construction of the new element fails in a PushBack or
\* EmplaceBack with size < capacity, or that of the temporary in an in-place
\* Emplace/Insert, the size and the capacity are as before and every element
\* of [0, size) keeps its value and position.
C11_InPlaceFailure ==
    InPlaceConstructionThrew(last) => View(vec, heap, last.v) = last.pre

\* the temporary of an in-place Insert into two different elements threw
C11_Witness ==
    /\ InPlaceConstructionThrew(last) /\ last.stage = "temp"
    /\ last.pre.size >= 2 /\ last.pre.elems[1] # last.pre.elems[2]

\* C12: Reserve and every growing PushBack/EmplaceBack/Emplace/Insert
\* relocate the existing elements by move when the move of T cannot throw or
\* T is not copyable, and by copy otherwise: a call that returns has moved
\* (copied) each of them once and copied (moved) none for relocation, a
\* call that throws has used the other operation for none; no element of a
\* move-only type is ever copied.
C12_RelocationPolicy ==
    /\ (Reallocating(last) /\ last.op # "=(const&)") =>
            IF RelocateByMove
            THEN last.rcp = 0 /\ (last.ok => last.rmv = last.pre.size)
            ELSE last.rmv = 0 /\ (last.ok => last.rcp = last.pre.size)
    /\ ~T.copyable => last.cp = 0

\* a growing insertion relocated two elements of a copyable type with a
\* throwing move
C12_Witness ==
    /\ Reallocating(last) /\ last.op \in {"Emplace", "Insert"} /\ last.ok
    /\ T.copyable /\ ~T.nothrow_move
    /\ last.pre.size = 2 /\ last.rcp = 2

\* C13: Resize(n) that returns leaves size n; for n > size the elements
\* there were keep value and order and those of [old size, n) have the
\* value of T(); for n < size the elements of [n, old size) are destroyed,
\* the first n are unchanged and so is the capacity; for n = size nothing
\* changes.
C13_Resize ==
    (last.op = "Resize" /\ last.ok) =>
        /\ vec[last.v].size = last.arg
        /\ IF last.arg > last.pre.size
           THEN Elems(vec, heap, last.v) =
                    last.pre.elems \o Fill(last.arg - last.pre.size, Default)
           ELSE IF last.arg < last.pre.size
           THEN /\ Elems(vec, heap, last.v) = SubSeq(last.pre.elems, 1, last.arg)
                /\ vec[last.v].data.capacity = last.pre.capacity
                /\ last.ds = last.pre.size - last.arg
           ELSE /\ View(vec, heap, last.v) = last.pre
                /\ last.ds = 0 /\ last.ct = 0 /\ last.al = 0

\* a Resize from one element that is not T() to three, into a new block
C13_Witness ==
    /\ last.op = "Resize" /\ last.ok /\ last.path = "realloc"
    /\ last.pre.size = 1 /\ last.pre.elems[1] # Default
    /\ vec[last.v].size = 3

\* C14: copy assignment from a Vector whose size is within the target's
\* capacity allocates no block, leaves the target's block and capacity as
\* they were and makes its size and elements those of the source.
C14_CopyAssignReuses ==
    (last.op = "=(const&)" /\ last.ok /\ last.prew.size <= last.pre.capacity) =>
        /\ last.al = 0
        /\ vec[last.v].data = [buffer |-> last.pre.buffer, capacity |-> last.pre.capacity]
        /\ vec[last.v].size = last.prew.size
        /\ Elems(vec, heap, last.v) = last.prew.elems

\* C15: between operations no two live Vectors refer to the same block, and
\* the destruction of a Vector releases no block that was released before.
C15_NoAliasing ==
    /\ \A u, v \in VecIds :
          (u # v /\ vec[u].live /\ vec[v].live /\ vec[u].data.buffer # Null) =>
              vec[u].data.buffer # vec[v].data.buffer
    /\ last.op = "~Vector" => last.twice = {}

\* a Vector holding elements is destroyed, and its block released, while the
\* other one holds elements in a block of its own
C15_Witness ==
    /\ last.op = "~Vector" /\ last.fr # {} /\ last.pre.size > 0
    /\ \E u \in VecIds : vec[u].live /\ vec[u].data.buffer # Null /\ vec[u].size > 0

\* a PushBack, EmplaceBack, Emplace or Insert called with size = capacity
Growing(l) ==
    l.op \in {"PushBack", "EmplaceBack", "Emplace", "Insert"} /\ l.pre.size = l.pre.capacity

\* C16: when a growing PushBack, EmplaceBack, Emplace or Insert returns,
\* the block the Vector had before is released (not allocated any more)
\* and the Vector owns only the new block.
C16_OldBlockReleased ==
    (Growing(last) /\ last.ok /\ last.pre.buffer # Null) =>
        /\ last.pre.buffer \in last.fr
        /\ last.pre.buffer \notin last.leaked
        /\ vec[last.v].data.buffer # last.pre.buffer

\* C17: a RawMemory move-constructed or move-assigned from a source has the
\* source's block and capacity, and the source is left empty (null block,
\* capacity 0), so that one RawMemory refers to the block right after the
\* move.  Checked on the move of data_ in Vector(Vector&&) and
\* operator=(Vector&&).
C17_RawMemoryMoveResets ==
    (last.op \in Moves /\ last.v # last.w) =>
        /\ last.rm.this = [buffer |-> last.prew.buffer, capacity |-> last.prew.capacity]
        /\ last.rm.other = EmptyRawMemory

\* C18: no operation, on any path, the failure paths of Reserve and of a
\* growing PushBack/EmplaceBack/Emplace/Insert included, releases a block
\* while one of its slots still holds a constructed element.
C18_ReleasedBlocksEmpty == last.dirty = {}

\* sequence s without its element of index i (counted from 0)
RemovedAt(s, i) == SubSeq(s, 1, i) \o SubSeq(s, i + 2, Len(s))

\* C19: Erase at index i of a Vector holding c leaves it holding c[0..i),
\* c[i+1..size), one element less, destroys exactly one element, keeps the
\* block and the capacity, and returns an iterator to index i, which is
\* end() when i was the last index.
C19_EraseAt ==
    (last.op = "Erase" /\ last.ok) =>
        /\ Elems(vec, heap, last.v) = RemovedAt(last.pre.elems, last.arg)
        /\ vec[last.v].size = last.pre.size - 1
        /\ last.ds = 1
        /\ vec[last.v].data = [buffer |-> last.pre.buffer, capacity |-> last.pre.capacity]
        /\ last.ret = [buffer |-> last.pre.buffer, index |-> last.arg]
        /\ last.arg = last.pre.size - 1 => last.ret.index = vec[last.v].size

\* the first of three elements, different from the second, is erased
C19_Witness ==
    /\ last.op = "Erase" /\ last.ok /\ last.arg = 0
    /\ last.pre.size = 3 /\ last.pre.elems[1] # last.pre.elems[2]

\* C20: move assignment to a Vector that owns a block and elements, from
\* another Vector or from itself, leaves no allocated block that no Vector
\* refers to, and so no element that no destructor will reach.
C20_MoveAssignNoLeak ==
    (last.op = "=(&&)" /\ last.pre.buffer # Null /\ last.pre.size > 0) =>
        last.leaked = {} /\ last.lost = 0

====
